---- MODULE Spec2Model ----
(***************************************************************************)
(* Model of ahkpy's keys.py (hotkey contexts, hotkeys, hotstrings, key     *)
(* remapping, send) and menu.py (Menu.update).  Every operation ends in    *)
(* directives issued to the AutoHotkey host through _ahk.call / ahk_call;  *)
(* the model records the directives each operation issues, the two locks   *)
(* (BaseHotkeyContext._lock, send_lock) and the position of every thread.  *)
(***************************************************************************)
EXTENDS Integers, Sequences, FiniteSets, TLC

VARIABLES
    pc,         \* pc[t]: position of thread t inside its operation
    op,         \* op[t]: the operation thread t runs (or ran last)
    issued,     \* issued[t]: directives t's operation has issued so far
    result,     \* result[t]: "none" | "running" | "returned" | "raised"
    lockOwner,  \* owner of BaseHotkeyContext._lock (0 = free)
    lockCount,  \* recursion level of BaseHotkeyContext._lock
    sendOwner,  \* owner of send_lock (0 = free)
    sendCount,  \* recursion level of send_lock
    hostLevel,  \* send level the host was last told to use
    lastSwitch, \* lastSwitch[b]: last On/Off/Toggle the host accepted for b
    remapped,   \* the RemappedKey objects remap_key has returned
    mpc,        \* Menu.update: position inside _insert_or_update
    margs,      \* Menu.update: the arguments of the call
    mcalls,     \* Menu.update: host calls issued by the call so far
    hsPc,       \* Hotstring.update: "call" before, "done" after
    hsArgs,     \* Hotstring.update: the hotstring's fields and the arguments
    hsOptions,  \* Hotstring.update: the option tokens it built
    hsIssued,   \* Hotstring.update: the directives it issued
    hkPc,       \* Hotkey.update: "call" before, "done" after
    hkCall,     \* Hotkey.update: reached through "hotkey" or called as "update"
    hkArgs,     \* Hotkey.update: the keyword arguments the caller gave
    hkOptionStr \* Hotkey.update: the option string it sent

keyVars  == <<pc, op, issued, result, lockOwner, lockCount, sendOwner,
              sendCount, hostLevel, lastSwitch, remapped>>
menuVars == <<mpc, margs, mcalls>>
hsVars   == <<hsPc, hsArgs, hsOptions, hsIssued>>
hkVars   == <<hkPc, hkCall, hkArgs, hkOptionStr>>
vars     == <<pc, op, issued, result, lockOwner, lockCount, sendOwner,
              sendCount, hostLevel, lastSwitch, remapped,
              mpc, margs, mcalls, hsPc, hsArgs, hsOptions, hsIssued,
              hkPc, hkCall, hkArgs, hkOptionStr>>

(***************************************************************************)
(* Bounds                                                                  *)
(***************************************************************************)
NThreads == 2

\* the largest key_delay, in seconds, an update is called with
MaxDelay == 2

\* the largest priority, max_threads and input_level a hotkey is given
MaxOption == 2

Threads == 1..NThreads

(***************************************************************************)
(* Values                                                                  *)
(***************************************************************************)
\* Python's None, and menu.py's UNSET sentinel
None  == "None"
UNSET == "UNSET"

\* default_context, and two HotkeyContext instances with predicates P and Q
DefaultCtx    == "default"
PredicateCtxs == {"P", "Q"}

\* a Hotkey / Hotstring object: its kind, its key_name / string, its context
Binding(type, name, ctx) == [type |-> type, name |-> name, ctx |-> ctx]

\* a directive: the command name and the arguments of one _ahk.call
Dir(cmd, a1, a2) == [cmd |-> cmd, a1 |-> a1, a2 |-> a2]

\* one call of a method using context._manager(): the binding and the method
Step(b, call) == [b |-> b, call |-> call]

\* an operation: the method calls it makes, the one it is at, and its argument
\* (the method of a binding or composite, the mode and level of send)
Op(kind, steps, arg, level) ==
    [kind |-> kind, steps |-> steps, i |-> 1, arg |-> arg, level |-> level]

NoOp == Op("none", <<>>, "", 0)

\* str.lower() on the mode strings and key names the model passes
Lower(m) ==
    CASE m = "Input"    -> "input"
      [] m = "PLAY"     -> "play"
      [] m = "CapsLock" -> "capslock"
      [] m = "NUMLOCK"  -> "numlock"
      [] m = "Insert"   -> "insert"
      [] m = "Shift"    -> "shift"
      [] OTHER          -> m

(***************************************************************************)
(* Hotkeys, hotstrings and contexts (keys.py)                              *)
(***************************************************************************)
\* the objects the operations below work on
HotkeyP    == Binding("hotkey", "F1", "P")
HotstringQ == Binding("hotstring", "btw", "Q")
HotkeyD    == Binding("hotkey", "F1", DefaultCtx)
\* the two hotkeys remap_key("a", "b") registers in the default context
WildcardOrigin   == Binding("hotkey", "*a", DefaultCtx)
WildcardOriginUp == Binding("hotkey", "*a Up", DefaultCtx)

Bindings == {HotkeyP, HotstringQ, HotkeyD, WildcardOrigin, WildcardOriginUp}

Switches == {"On", "Off", "Toggle"}
Methods  == Switches \cup {"update"}

\* the step thread t is at
CurStep(t) == op[t].steps[op[t].i]

\* the _ahk.call made inside `with self.context._manager():`
BodyDirective(s) ==
    IF s.b.type = "hotkey"
    THEN IF s.call = "update"
         THEN Dir("Hotkey", s.b.name, s.b.ctx)
         ELSE Dir("HotkeySpecial", s.b.name, s.call)
    ELSE IF s.call = "update"
         THEN Dir("Hotstring", s.b.name, "")
         ELSE Dir("Hotstring", s.b.name, s.call)

\* (variant: the lock lets every caller in)
LockFreeAlways(owner, t) == TRUE

\* threading.RLock: free, or already held by the caller
LockFree(owner, t) == owner \in {0, t}

Begin(t, o) ==
    /\ pc[t] = "idle"
    /\ op' = [op EXCEPT ![t] = o]
    /\ issued' = [issued EXCEPT ![t] = <<>>]
    /\ result' = [result EXCEPT ![t] = "running"]

\* an operation raises before it reaches a lock or the host
Reject(t, o) ==
    /\ pc[t] = "idle"
    /\ op' = [op EXCEPT ![t] = o]
    /\ issued' = [issued EXCEPT ![t] = <<>>]
    /\ result' = [result EXCEPT ![t] = "raised"]
    /\ UNCHANGED pc

Issue(t, d) == issued' = [issued EXCEPT ![t] = Append(@, d)]

\* Hotkey / Hotstring .enable() .disable() .toggle() .update()
CallMethod(t, bs) ==
    /\ \E b \in bs, m \in Methods :
          Begin(t, Op("method", <<Step(b, m)>>, m, 0))
    /\ pc' = [pc EXCEPT ![t] = "lock"]
    /\ UNCHANGED <<lockOwner, lockCount, sendOwner, sendCount, hostLevel,
                   remapped>>

\* (variant: the default context enters without taking the lock)
AcquireLockSkippingDefault(t) ==
    /\ pc[t] = "lock"
    /\ IF CurStep(t).b.ctx = DefaultCtx
       THEN UNCHANGED <<lockOwner, lockCount>>
       ELSE /\ LockFree(lockOwner, t)
            /\ lockOwner' = t
            /\ lockCount' = lockCount + 1
    /\ pc' = [pc EXCEPT ![t] = "enter"]
    /\ UNCHANGED <<op, issued, result, sendOwner, sendCount, hostLevel,
                   remapped>>

\* _manager: with BaseHotkeyContext._lock:
AcquireLock(t) ==
    /\ pc[t] = "lock"
    /\ LockFree(lockOwner, t)
    /\ lockOwner' = t
    /\ lockCount' = lockCount + 1
    /\ pc' = [pc EXCEPT ![t] = "enter"]
    /\ UNCHANGED <<op, issued, result, sendOwner, sendCount, hostLevel,
                   remapped>>

\* _manager: self._enter()
Enter(t) ==
    /\ pc[t] = "enter"
    /\ IF CurStep(t).b.ctx \in PredicateCtxs
       THEN \E ok \in BOOLEAN :
               /\ Issue(t, Dir("HotkeyContext", CurStep(t).b.ctx, ""))
               /\ pc' = [pc EXCEPT ![t] = IF ok THEN "body" ELSE "unlock_exc"]
       ELSE /\ pc' = [pc EXCEPT ![t] = "body"]
            /\ UNCHANGED issued
    /\ UNCHANGED <<op, result, lockOwner, lockCount, sendOwner, sendCount,
                   hostLevel, remapped>>

\* where the generator of _manager resumes when the block under `with
\* self.context._manager():` raises: the exception is thrown in at `yield`,
\* which no try/finally surrounds, so self._exit() is skipped
AfterBodyRaised == "unlock_exc"

\* the block under `with self.context._manager():`
Body(t) ==
    /\ pc[t] = "body"
    /\ Issue(t, BodyDirective(CurStep(t)))
    /\ \E ok \in BOOLEAN :
          pc' = [pc EXCEPT ![t] = IF ok THEN "exit" ELSE AfterBodyRaised]
    /\ UNCHANGED <<op, result, lockOwner, lockCount, sendOwner, sendCount,
                   hostLevel, remapped>>

\* _manager: self._exit()
Exit(t) ==
    /\ pc[t] = "exit"
    /\ IF CurStep(t).b.ctx \in PredicateCtxs
       THEN \E ok \in BOOLEAN :
               /\ Issue(t, Dir("HotkeyExitContext", "", ""))
               /\ pc' = [pc EXCEPT ![t] = IF ok THEN "unlock" ELSE "unlock_exc"]
       ELSE /\ pc' = [pc EXCEPT ![t] = "unlock"]
            /\ UNCHANGED issued
    /\ UNCHANGED <<op, result, lockOwner, lockCount, sendOwner, sendCount,
                   hostLevel, remapped>>

\* the dataclass RemappedKey
RemappedKey(down, up) == [wildcard_origin |-> down, wildcard_origin_up |-> up]

ReleaseLock ==
    /\ lockCount' = lockCount - 1
    /\ lockOwner' = IF lockCount = 1 THEN 0 ELSE lockOwner

\* _manager: the `with` on the lock ends normally; the operation goes on to
\* its next method call or returns
Unlock(t) ==
    /\ pc[t] = "unlock"
    /\ ReleaseLock
    /\ IF op[t].i < Len(op[t].steps)
       THEN /\ op' = [op EXCEPT ![t].i = @ + 1]
            /\ pc' = [pc EXCEPT ![t] = "lock"]
            /\ UNCHANGED result
       ELSE /\ pc' = [pc EXCEPT ![t] = "idle"]
            /\ result' = [result EXCEPT ![t] = "returned"]
            /\ UNCHANGED op
    /\ remapped' = IF op[t].i = Len(op[t].steps) /\ op[t].kind = "remap_key"
                   THEN remapped \cup
                        {RemappedKey(op[t].steps[1].b, op[t].steps[3].b)}
                   ELSE remapped
    /\ UNCHANGED <<issued, sendOwner, sendCount, hostLevel>>

\* (variant: an exception leaves the operation without releasing the lock)
UnlockExcKeepingLock(t) ==
    /\ pc[t] = "unlock_exc"
    /\ pc' = [pc EXCEPT ![t] = "idle"]
    /\ result' = [result EXCEPT ![t] = "raised"]
    /\ UNCHANGED <<op, issued, lockOwner, lockCount, sendOwner, sendCount,
                   hostLevel, remapped>>

\* _manager: the `with` on the lock ends with an exception, which leaves the
\* operation
UnlockExc(t) ==
    /\ pc[t] = "unlock_exc"
    /\ ReleaseLock
    /\ pc' = [pc EXCEPT ![t] = "idle"]
    /\ result' = [result EXCEPT ![t] = "raised"]
    /\ UNCHANGED <<op, issued, sendOwner, sendCount, hostLevel, remapped>>

Manager(t) ==
    \/ AcquireLock(t)
    \/ Enter(t)
    \/ Body(t)
    \/ Exit(t)
    \/ Unlock(t)
    \/ UnlockExc(t)

\* (variant: the binding is enabled before it is registered)
RegisterStepsEnableFirst(b) == <<Step(b, "On"), Step(b, "update")>>

\* the method calls of ctx.hotkey(key_name, func) / ctx.hotstring(string,
\* replacement): hk.update(...) and then hk.enable()
RegisterSteps(b) == <<Step(b, "update"), Step(b, "On")>>

\* ctx.hotkey(key_name, func), ctx.hotstring(string, replacement)
CallRegister(t, bs) ==
    /\ \E b \in bs :
          IF b.type = "hotkey" /\ b.name = ""
          THEN Reject(t, Op("register", <<Step(b, "update")>>, "", 0))
          ELSE /\ Begin(t, Op("register", RegisterSteps(b), "", 0))
               /\ pc' = [pc EXCEPT ![t] = "lock"]
    /\ UNCHANGED <<lockOwner, lockCount, sendOwner, sendCount, hostLevel,
                   remapped>>

\* remap_key(origin_key, destination_key): two hotkey() registrations in the
\* default context, key-down first
RemapKeySteps(origin) ==
    RegisterSteps(Binding("hotkey", "*" \o origin, DefaultCtx))
    \o RegisterSteps(Binding("hotkey", "*" \o origin \o " Up", DefaultCtx))

CallRemapKey(t) ==
    /\ Begin(t, Op("remap_key", RemapKeySteps("a"), "", 0))
    /\ pc' = [pc EXCEPT ![t] = "lock"]
    /\ UNCHANGED <<lockOwner, lockCount, sendOwner, sendCount, hostLevel,
                   remapped>>

\* (variant: only the key-down hotkey is switched)
RemappedStepsDownOnly(r, m) == <<Step(r.wildcard_origin, m)>>

\* the method calls of RemappedKey.enable() / .disable() / .toggle()
RemappedSteps(r, m) ==
    <<Step(r.wildcard_origin, m), Step(r.wildcard_origin_up, m)>>

\* RemappedKey.enable(), .disable(), .toggle()
CallRemapped(t) ==
    /\ \E r \in remapped, m \in Switches :
          Begin(t, Op("remapped", RemappedSteps(r, m), m, 0))
    /\ pc' = [pc EXCEPT ![t] = "lock"]
    /\ UNCHANGED <<lockOwner, lockCount, sendOwner, sendCount, hostLevel,
                   remapped>>

\* the host accepted the directive of the block: the last switch it was given
\* for the binding
HostSwitch(t) ==
    lastSwitch' =
        IF pc[t] = "body" /\ pc'[t] = "exit" /\ CurStep(t).call \in Switches
        THEN [lastSwitch EXCEPT ![CurStep(t).b] = CurStep(t).call]
        ELSE lastSwitch

\* ctx.hotkey(key_name) without a function: the key name is checked, then
\* hotkey_decorator is returned and nothing has been sent to the host
CallHotkeyDecorator(t, bs) ==
    /\ \E b \in bs :
          IF b.name = ""
          THEN Reject(t, Op("decorator", <<Step(b, "update")>>, "", 0))
          ELSE /\ pc[t] = "idle"
               /\ op' = [op EXCEPT ![t] = Op("decorator", RegisterSteps(b), "", 0)]
               /\ issued' = [issued EXCEPT ![t] = <<>>]
               /\ result' = [result EXCEPT ![t] = "returned"]
               /\ UNCHANGED pc
    /\ UNCHANGED <<lockOwner, lockCount, sendOwner, sendCount, hostLevel,
                   remapped>>

\* hotkey_decorator(func), applied to what follows the @ line: a func that is
\* not callable raises, a callable one is registered
CallDecorator(t) ==
    /\ op[t].kind = "decorator"
    /\ result[t] = "returned"
    /\ \E callable \in BOOLEAN :
          IF callable
          THEN /\ Begin(t, Op("register", op[t].steps, "", 0))
               /\ pc' = [pc EXCEPT ![t] = "lock"]
          ELSE Reject(t, Op("register", op[t].steps, "", 0))
    /\ UNCHANGED <<lockOwner, lockCount, sendOwner, sendCount, hostLevel,
                   remapped>>

(***************************************************************************)
(* is_key_toggled (keys.py)                                                *)
(***************************************************************************)
\* the tuple key_name.lower() is looked up in
ToggleKeys == {"capslock", "numlock", "scrolllock", "insert", "ins"}

\* what _ahk.call("GetKeyState", ...) can do: raise, or return "" / 0 / 1
HostKeyStates == {"raise", "", "0", "1"}

\* (variant: the key name is not checked)
CallIsKeyToggledUnchecked(t, keys) ==
    /\ \E k \in keys :
          /\ Begin(t, Op("is_key_toggled", <<>>, k, 0))
          /\ pc' = [pc EXCEPT ![t] = "get_key_state"]
    /\ UNCHANGED <<lockOwner, lockCount, sendOwner, sendCount, hostLevel,
                   remapped>>

\* is_key_toggled(key_name): the name is checked before _get_key_state
CallIsKeyToggled(t, keys) ==
    /\ \E k \in keys :
          IF Lower(k) \notin ToggleKeys
          THEN Reject(t, Op("is_key_toggled", <<>>, k, 0))
          ELSE /\ Begin(t, Op("is_key_toggled", <<>>, k, 0))
               /\ pc' = [pc EXCEPT ![t] = "get_key_state"]
    /\ UNCHANGED <<lockOwner, lockCount, sendOwner, sendCount, hostLevel,
                   remapped>>

\* _get_key_state(key_name, "T")
GetKeyState(t) ==
    /\ pc[t] = "get_key_state"
    /\ Issue(t, Dir("GetKeyState", op[t].arg, "T"))
    /\ \E r \in HostKeyStates :
          result' = [result EXCEPT ![t] =
                        IF r \in {"raise", ""} THEN "raised" ELSE "returned"]
    /\ pc' = [pc EXCEPT ![t] = "idle"]
    /\ UNCHANGED <<op, lockOwner, lockCount, sendOwner, sendCount, hostLevel,
                   remapped>>

(***************************************************************************)
(* send (keys.py)                                                          *)
(***************************************************************************)
MinLevel == 0
MaxLevel == 100

\* class SendMode and the if/elif chain of send
SendModes == {"input", "play", "event"}

SendCommand(mode) ==
    CASE mode = "input" -> "SendInput"
      [] mode = "play"  -> "SendPlay"
      [] mode = "event" -> "SendEvent"

\* wildcard_origin() / wildcard_origin_up(), the callbacks of a remapped key:
\* send(...) with the default mode and level
CallRemapCallback(t) ==
    /\ remapped # {}
    /\ Begin(t, Op("callback", <<>>, "input", MinLevel))
    /\ pc' = [pc EXCEPT ![t] = "send_lock"]
    /\ UNCHANGED <<lockOwner, lockCount, sendOwner, sendCount, hostLevel,
                   remapped>>

\* send(keys, mode=..., level=...): the mode is checked before the lock
CallSend(t, modes, levels) ==
    /\ \E mode \in modes, level \in levels :
          IF mode \in SendModes
          THEN /\ Begin(t, Op("send", <<>>, mode, level))
               /\ pc' = [pc EXCEPT ![t] = "send_lock"]
          ELSE Reject(t, Op("send", <<>>, mode, level))
    /\ UNCHANGED <<lockOwner, lockCount, sendOwner, sendCount, hostLevel,
                   remapped>>

\* (variant: send enters without waiting for send_lock)
AcquireSendLockNoWait(t) ==
    /\ pc[t] = "send_lock"
    /\ sendOwner' = t
    /\ sendCount' = sendCount + 1
    /\ pc' = [pc EXCEPT ![t] = "send_level"]
    /\ UNCHANGED <<op, issued, result, lockOwner, lockCount, hostLevel,
                   remapped>>

\* send: with send_lock:
AcquireSendLock(t) ==
    /\ pc[t] = "send_lock"
    /\ LockFree(sendOwner, t)
    /\ sendOwner' = t
    /\ sendCount' = sendCount + 1
    /\ pc' = [pc EXCEPT ![t] = "send_level"]
    /\ UNCHANGED <<op, issued, result, lockOwner, lockCount, hostLevel,
                   remapped>>

\* (variant: the bounds themselves are rejected)
SendLevelExclusive(t) ==
    /\ pc[t] = "send_level"
    /\ IF ~(MinLevel < op[t].level /\ op[t].level < MaxLevel)
       THEN /\ pc' = [pc EXCEPT ![t] = "send_unlock_exc"]
            /\ UNCHANGED <<issued, hostLevel>>
       ELSE \E ok \in BOOLEAN :
               /\ Issue(t, Dir("SendLevel", ToString(op[t].level), ""))
               /\ hostLevel' = IF ok THEN op[t].level ELSE hostLevel
               /\ pc' = [pc EXCEPT ![t] =
                            IF ok THEN "send_cmd" ELSE "send_unlock_exc"]
    /\ UNCHANGED <<op, result, lockOwner, lockCount, sendOwner, sendCount,
                   remapped>>

\* _send_level(level)
SendLevel(t) ==
    /\ pc[t] = "send_level"
    /\ IF ~(MinLevel <= op[t].level /\ op[t].level <= MaxLevel)
       THEN /\ pc' = [pc EXCEPT ![t] = "send_unlock_exc"]
            /\ UNCHANGED <<issued, hostLevel>>
       ELSE \E ok \in BOOLEAN :
               /\ Issue(t, Dir("SendLevel", ToString(op[t].level), ""))
               /\ hostLevel' = IF ok THEN op[t].level ELSE hostLevel
               /\ pc' = [pc EXCEPT ![t] =
                            IF ok THEN "send_cmd" ELSE "send_unlock_exc"]
    /\ UNCHANGED <<op, result, lockOwner, lockCount, sendOwner, sendCount,
                   remapped>>

\* send: _ahk.call(cmd, keys)
SendKeys(t) ==
    /\ pc[t] = "send_cmd"
    /\ Issue(t, Dir(SendCommand(op[t].arg), "keys", ""))
    /\ \E ok \in BOOLEAN :
          pc' = [pc EXCEPT ![t] = IF ok THEN "send_unlock" ELSE "send_unlock_exc"]
    /\ UNCHANGED <<op, result, lockOwner, lockCount, sendOwner, sendCount,
                   hostLevel, remapped>>

ReleaseSendLock ==
    /\ sendCount' = sendCount - 1
    /\ sendOwner' = IF sendCount = 1 THEN 0 ELSE sendOwner

\* send: the `with send_lock:` ends normally and send returns
SendUnlock(t) ==
    /\ pc[t] = "send_unlock"
    /\ ReleaseSendLock
    /\ pc' = [pc EXCEPT ![t] = "idle"]
    /\ result' = [result EXCEPT ![t] = "returned"]
    /\ UNCHANGED <<op, issued, lockOwner, lockCount, hostLevel, remapped>>

\* send: the `with send_lock:` ends with an exception
SendUnlockExc(t) ==
    /\ pc[t] = "send_unlock_exc"
    /\ ReleaseSendLock
    /\ pc' = [pc EXCEPT ![t] = "idle"]
    /\ result' = [result EXCEPT ![t] = "raised"]
    /\ UNCHANGED <<op, issued, lockOwner, lockCount, hostLevel, remapped>>

Sending(t) ==
    \/ AcquireSendLock(t)
    \/ SendLevel(t)
    \/ SendKeys(t)
    \/ SendUnlock(t)
    \/ SendUnlockExc(t)

(***************************************************************************)
(* Optional and tri-state arguments                                        *)
(***************************************************************************)
\* a keyword argument that is None, True or False
Tri == {"None", "True", "False"}

\* an optional integer: <<>> for None, <<n>> for n
OptInt(ns) == {<<>>} \cup {<<n>> : n \in ns}

\* "sep".join(tokens)
RECURSIVE Join(_, _)
Join(tokens, sep) ==
    IF tokens = <<>> THEN ""
    ELSE IF Len(tokens) = 1 THEN tokens[1]
    ELSE tokens[1] \o sep \o Join(Tail(tokens), sep)

(***************************************************************************)
(* Hotstring.update: the option tokens (keys.py)                           *)
(***************************************************************************)
\* (variant: conform_to_case is looked at before case_sensitive)
CaseTokensConformFirst(a) ==
    IF a.conform_to_case = "True" THEN <<"C0">>
    ELSE IF a.conform_to_case # "None" THEN <<"C1">>
    ELSE IF a.case_sensitive THEN <<"C">>
    ELSE <<>>

\* if self.case_sensitive / elif conform_to_case / elif ... is not None
CaseTokens(a) ==
    IF a.case_sensitive THEN <<"C">>
    ELSE IF a.conform_to_case = "True" THEN <<"C0">>
    ELSE IF a.conform_to_case # "None" THEN <<"C1">>
    ELSE <<>>

\* if self.replace_inside_word
InsideTokens(a) == IF a.replace_inside_word THEN <<"?">> ELSE <<"?0">>

\* (variant: omit_end_char is looked at before wait_for_end_char)
EndCharTokensOmitFirst(a) ==
    IF a.omit_end_char = "True" THEN <<"*0", "O">>
    ELSE IF a.wait_for_end_char = "False" THEN <<"*">>
    ELSE (IF a.wait_for_end_char = "True" THEN <<"*0">> ELSE <<>>)
         \o (IF a.omit_end_char = "False" THEN <<"O0">> ELSE <<>>)

\* (variant: omit_end_char adds "*0" only when wait_for_end_char is given)
EndCharTokensBareOmit(a) ==
    IF a.wait_for_end_char = "False" THEN <<"*">>
    ELSE (IF a.wait_for_end_char = "True" THEN <<"*0">> ELSE <<>>)
         \o (IF a.omit_end_char = "True" THEN <<"O">>
             ELSE IF a.omit_end_char = "False" THEN <<"O0">> ELSE <<>>)

\* if wait_for_end_char is False / elif omit_end_char / else
EndCharTokens(a) ==
    IF a.wait_for_end_char = "False" THEN <<"*">>
    ELSE IF a.omit_end_char = "True" THEN <<"*0", "O">>
    ELSE (IF a.wait_for_end_char = "True" THEN <<"*0">> ELSE <<>>)
         \o (IF a.omit_end_char = "False" THEN <<"O0">> ELSE <<>>)

\* if backspacing / elif backspacing is not None
BackspacingTokens(a) ==
    IF a.backspacing = "True" THEN <<"B">>
    ELSE IF a.backspacing # "None" THEN <<"B0">>
    ELSE <<>>

\* (variant: every key_delay is scaled by 1000)
KeyDelayTokensAlwaysScaled(a) ==
    IF a.key_delay = <<>> THEN <<>>
    ELSE <<"K" \o ToString(a.key_delay[1] * 1000)>>

\* if key_delay is not None: scaled by 1000 when positive
KeyDelayTokens(a) ==
    IF a.key_delay = <<>> THEN <<>>
    ELSE IF a.key_delay[1] > 0
         THEN <<"K" \o ToString(a.key_delay[1] * 1000)>>
         ELSE <<"K" \o ToString(a.key_delay[1])>>

\* if priority is not None
PriorityTokens(a) ==
    IF a.priority = <<>> THEN <<>> ELSE <<"P" \o ToString(a.priority[1])>>

\* if text / elif text is not None
TextTokens(a) ==
    IF a.text = "True" THEN <<"T">>
    ELSE IF a.text # "None" THEN <<"T0">>
    ELSE <<>>

\* (variant: the mode is compared without lower())
ModeTokensCaseSensitive(a) ==
    CASE a.mode = "input" -> <<"SI">>
      [] a.mode = "play"  -> <<"SP">>
      [] a.mode = "event" -> <<"SE">>
      [] OTHER            -> <<>>

\* if mode is not None: mode = mode.lower(); then the if/elif chain
ModeTokens(a) ==
    LET mode == IF a.mode # None THEN Lower(a.mode) ELSE a.mode
    IN  CASE mode = "input" -> <<"SI">>
          [] mode = "play"  -> <<"SP">>
          [] mode = "event" -> <<"SE">>
          [] OTHER          -> <<>>

\* if reset_recognizer / elif reset_recognizer is not None
ResetTokens(a) ==
    IF a.reset_recognizer = "True" THEN <<"Z">>
    ELSE IF a.reset_recognizer # "None" THEN <<"Z0">>
    ELSE <<>>

\* the list `options` of Hotstring.update, in the order it is appended to
HotstringOptions(a) ==
    CaseTokens(a) \o InsideTokens(a) \o EndCharTokens(a)
    \o BackspacingTokens(a) \o KeyDelayTokens(a) \o PriorityTokens(a)
    \o TextTokens(a) \o ModeTokens(a) \o ResetTokens(a)

\* the fields of a Hotstring and the arguments of one update() call
HotstringCalls ==
    [case_sensitive : BOOLEAN, replace_inside_word : BOOLEAN,
     conform_to_case : Tri, wait_for_end_char : Tri, omit_end_char : Tri,
     backspacing : Tri, key_delay : OptInt({-1, 0, MaxDelay}),
     priority : OptInt({0}), text : Tri,
     mode : {None, "Input", "PLAY", "event", "raw"},
     reset_recognizer : Tri]

\* the defaults of hotstring()
HotstringDefaults ==
    [case_sensitive |-> FALSE, replace_inside_word |-> FALSE,
     conform_to_case |-> "True", wait_for_end_char |-> "True",
     omit_end_char |-> "False", backspacing |-> "True", key_delay |-> <<-1>>,
     priority |-> <<0>>, text |-> "False", mode |-> None,
     reset_recognizer |-> "False"]

\* hotstring() called with each mode and each text flag, the rest left at
\* its default
HotstringModeCalls ==
    {[HotstringDefaults EXCEPT !.mode = m, !.text = x] :
        m \in {None, "Input", "PLAY", "event", "raw"}, x \in Tri}

\* Hotstring.update(...): builds the option tokens and sends them in one
\* Hotstring directive for the string "btw", which the host accepts or not
HotstringUpdate ==
    /\ hsPc = "call"
    /\ hsOptions' = HotstringOptions(hsArgs)
    /\ hsIssued' = <<Dir("Hotstring",
                         ":" \o Join(HotstringOptions(hsArgs), "") \o ":btw",
                         "")>>
    /\ \E ok \in BOOLEAN : hsPc' = IF ok THEN "done" ELSE "raised"
    /\ UNCHANGED hsArgs

(***************************************************************************)
(* Hotkey.update: the option string (keys.py)                              *)
(***************************************************************************)
\* if buffer / elif buffer is not None
BufferToken(a) ==
    IF a.buffer = "True" THEN <<"B">>
    ELSE IF a.buffer # "None" THEN <<"B0">>
    ELSE <<>>

\* (variant: `if priority:` instead of `if priority is not None:`)
HotkeyPriorityTokenTruthy(a) ==
    IF a.priority = <<>> \/ a.priority = <<0>> THEN <<>>
    ELSE <<"P" \o ToString(a.priority[1])>>

\* if priority is not None
HotkeyPriorityToken(a) ==
    IF a.priority = <<>> THEN <<>> ELSE <<"P" \o ToString(a.priority[1])>>

\* if max_threads is not None
MaxThreadsToken(a) ==
    IF a.max_threads = <<>> THEN <<>>
    ELSE <<"T" \o ToString(a.max_threads[1])>>

\* if input_level is not None
InputLevelToken(a) ==
    IF a.input_level = <<>> THEN <<>>
    ELSE <<"I" \o ToString(a.input_level[1])>>

\* option_str = "".join(options)
HotkeyOptionStr(a) ==
    Join(BufferToken(a) \o HotkeyPriorityToken(a) \o MaxThreadsToken(a)
         \o InputLevelToken(a), "")

\* the defaults of hotkey(): buffer=False, priority=0, max_threads=1,
\* input_level=0
HotkeyDefaults ==
    [buffer |-> "False", priority |-> <<0>>, max_threads |-> <<1>>,
     input_level |-> <<0>>]

\* hotkey() hands update() every option: the one given, else its default
WithDefaults(a) ==
    [buffer      |-> IF a.buffer = "None" THEN HotkeyDefaults.buffer
                     ELSE a.buffer,
     priority    |-> IF a.priority = <<>> THEN HotkeyDefaults.priority
                     ELSE a.priority,
     max_threads |-> IF a.max_threads = <<>> THEN HotkeyDefaults.max_threads
                     ELSE a.max_threads,
     input_level |-> IF a.input_level = <<>> THEN HotkeyDefaults.input_level
                     ELSE a.input_level]

\* the keyword arguments a caller gives ("None" and <<>>: not given)
HotkeyCalls ==
    [buffer : Tri, priority : OptInt({-1, 0, MaxOption}),
     max_threads : OptInt({1, MaxOption}),
     input_level : OptInt({0, MaxOption})]

\* ctx.hotkey(key_name, func, ...) -> hk.update(...) with every option set
HotkeyRegister ==
    /\ hkPc = "call"
    /\ hkCall = "hotkey"
    /\ hkOptionStr' = HotkeyOptionStr(WithDefaults(hkArgs))
    /\ hkPc' = "done"
    /\ UNCHANGED <<hkCall, hkArgs>>

\* hk.update(...) called directly: what is not given stays unset
HotkeyUpdate ==
    /\ hkPc = "call"
    /\ hkCall = "update"
    /\ hkOptionStr' = HotkeyOptionStr(hkArgs)
    /\ hkPc' = "done"
    /\ UNCHANGED <<hkCall, hkArgs>>

(***************************************************************************)
(* Menu.update (menu.py)                                                   *)
(***************************************************************************)
\* Menu._item_name: a position becomes "<position + 1>&"
ItemName(it) ==
    IF it.kind = "pos" THEN ToString(it.pos + 1) \o "&" ELSE it.name

\* _insert_or_update: submenu wins over callback
Thing(a) ==
    IF a.submenu # None THEN ":" \o a.submenu
    ELSE IF a.callback # None THEN a.callback
    ELSE None

Flag(v, name) ==
    IF v = "None" THEN <<>>
    ELSE <<(IF v = "True" THEN "+" ELSE "-") \o name>>

\* _insert_or_update: option_str
OptionStr(a) ==
    Join((IF a.priority = <<>> THEN <<>>
          ELSE <<"P" \o ToString(a.priority[1])>>)
         \o Flag(a.radio, "Radio") \o Flag(a.right, "Right")
         \o Flag(a.new_column, "Break") \o Flag(a.bar_column, "BarBreak"),
         " ")

\* one ahk_call("Menu", self.name, cmd, item_name, *args) and how it ended
MenuCall(cmd, item, args, ok) ==
    [cmd |-> cmd, item |-> item, args |-> args, ok |-> ok]

\* (variant: the checked state is set before the enabled state)
NextStepCheckedFirst(step) ==
    CASE step = "start"   -> "rename"
      [] step = "rename"  -> "options"
      [] step = "options" -> "thing"
      [] step = "thing"   -> "checked"
      [] step = "checked" -> "enabled"
      [] step = "enabled" -> "icon"
      [] step = "icon"    -> "done"

\* the order of the statements under `if update:`
NextStep(step) ==
    CASE step = "start"   -> "rename"
      [] step = "rename"  -> "options"
      [] step = "options" -> "thing"
      [] step = "thing"   -> "enabled"
      [] step = "enabled" -> "checked"
      [] step = "checked" -> "icon"
      [] step = "icon"    -> "done"

\* (variant: a host error is swallowed and the update goes on)
AfterCallIgnoringError(ok, step) == NextStep(step)

\* a host call that raises ends the update: nothing catches the exception
AfterCall(ok, step) == IF ok THEN NextStep(step) ELSE "raised"

\* the host call of one statement: it returns or raises
DoCall(step, cmd, args) ==
    \E ok \in BOOLEAN :
       /\ mcalls' = Append(mcalls,
                       MenuCall(cmd, ItemName(margs.item_name), args, ok))
       /\ mpc' = AfterCall(ok, step)
       /\ UNCHANGED margs

Skip(step) ==
    /\ mpc' = NextStep(step)
    /\ UNCHANGED <<margs, mcalls>>

\* the arguments of one update() call
MenuCalls ==
    [item_name : {[kind |-> "name", name |-> "item", pos |-> 0],
                  [kind |-> "pos", name |-> "", pos |-> 0]},
     new_name : {UNSET, None, "new"},
     callback : {None, "cb"}, submenu : {None, "sub"},
     priority : OptInt({0}), radio : Tri, right : {"None", "False"},
     new_column : {"None", "True"}, bar_column : {"None", "True"},
     enabled : Tri, checked : Tri,
     icon : {None, "", "icon.ico"}, icon_number : OptInt({1}),
     icon_width : {None}]

\* Menu.update -> _insert_or_update(..., update=True): item_name, thing and
\* option_str are computed, then the statements under `if update:` run
MenuUpdate ==
    /\ mpc = "start"
    /\ mpc' = NextStep("start")
    /\ UNCHANGED <<margs, mcalls>>

\* if new_name is not UNSET: self.rename(item_name, new_name)
MenuRename ==
    /\ mpc = "rename"
    /\ IF margs.new_name # UNSET
       THEN DoCall("rename", "Rename", <<margs.new_name>>)
       ELSE Skip("rename")

\* if option_str: self._call("Add", item_name, "", option_str)
MenuSetOptions ==
    /\ mpc = "options"
    /\ IF OptionStr(margs) # ""
       THEN DoCall("options", "Add", <<"", OptionStr(margs)>>)
       ELSE Skip("options")

\* if thing is not None: self._call("Add", item_name, thing)
MenuSetThing ==
    /\ mpc = "thing"
    /\ IF Thing(margs) # None
       THEN DoCall("thing", "Add", <<Thing(margs)>>)
       ELSE Skip("thing")

\* if enabled: self.enable(...) elif enabled is not None: self.disable(...)
MenuSetEnabled ==
    /\ mpc = "enabled"
    /\ IF margs.enabled = "True" THEN DoCall("enabled", "Enable", <<>>)
       ELSE IF margs.enabled # "None" THEN DoCall("enabled", "Disable", <<>>)
       ELSE Skip("enabled")

\* if checked: self.check(...) elif checked is not None: self.uncheck(...)
MenuSetChecked ==
    /\ mpc = "checked"
    /\ IF margs.checked = "True" THEN DoCall("checked", "Check", <<>>)
       ELSE IF margs.checked # "None" THEN DoCall("checked", "Uncheck", <<>>)
       ELSE Skip("checked")

\* if icon: self.set_icon(item_name, icon, icon_number, icon_width)
MenuSetIcon ==
    /\ mpc = "icon"
    /\ IF margs.icon \notin {None, ""}
       THEN DoCall("icon", "Icon",
                   <<margs.icon,
                     ToString((IF margs.icon_number = <<>> THEN 0
                               ELSE margs.icon_number[1]) + 1),
                     margs.icon_width>>)
       ELSE Skip("icon")

(***************************************************************************)
(* Specifications                                                          *)
(***************************************************************************)
InitKeys ==
    /\ pc = [t \in Threads |-> "idle"]
    /\ op = [t \in Threads |-> NoOp]
    /\ issued = [t \in Threads |-> <<>>]
    /\ result = [t \in Threads |-> "none"]
    /\ lockOwner = 0
    /\ lockCount = 0
    /\ sendOwner = 0
    /\ sendCount = 0
    /\ hostLevel = 0
    /\ lastSwitch = [b \in Bindings |-> "none"]
    /\ remapped = {}

InitMenu ==
    /\ mpc = "idle"
    /\ margs = [m \in {} |-> 0]
    /\ mcalls = <<>>

InitHs ==
    /\ hsPc = "idle"
    /\ hsArgs = [h \in {} |-> 0]
    /\ hsOptions = <<>>
    /\ hsIssued = <<>>

InitHk ==
    /\ hkPc = "idle"
    /\ hkCall = ""
    /\ hkArgs = [h \in {} |-> 0]
    /\ hkOptionStr = ""

Init == InitKeys /\ InitMenu /\ InitHs /\ InitHk

\* threads concurrently calling enable/disable/toggle/update on a hotkey of
\* the default context, a hotkey of context P and a hotstring of context Q
Next ==
    \E t \in Threads :
       /\ \/ CallMethod(t, {HotkeyD, HotkeyP, HotstringQ})
          \/ Manager(t)
       /\ UNCHANGED <<lastSwitch, menuVars, hsVars, hkVars>>

Spec == Init /\ [][Next]_vars

\* threads concurrently calling send with each mode and with levels inside
\* and outside the accepted range
NextSend ==
    \E t \in Threads :
       /\ \/ CallSend(t, SendModes \cup {"raw"}, {MinLevel, MaxLevel, MaxLevel + 1})
          \/ Sending(t)
       /\ UNCHANGED <<lastSwitch, menuVars, hsVars, hkVars>>

SpecSend == Init /\ [][NextSend]_vars

\* one thread registering, switching, updating and remapping, one call after
\* the other
NextSeq ==
    \E t \in {1} :
       /\ \/ CallRegister(t, {HotkeyD, HotkeyP, HotstringQ,
                               Binding("hotkey", "", DefaultCtx)})
          \/ CallMethod(t, {HotkeyD, HotkeyP, HotstringQ})
          \/ CallRemapKey(t)
          \/ CallRemapped(t)
          \/ Manager(t)
       /\ HostSwitch(t)
       /\ UNCHANGED <<menuVars, hsVars, hkVars>>

SpecSeq == Init /\ [][NextSeq]_vars

\* one thread calling, one call after the other, send with each mode and with
\* the levels around both ends of the range, is_key_toggled with toggle keys
\* and another key, and hotkey() in both forms with and without a key name;
\* and one hotstring() registration with each mode
InitHsModeCall ==
    /\ hsPc = "call"
    /\ hsArgs \in HotstringModeCalls
    /\ hsOptions = <<>>
    /\ hsIssued = <<>>

NextArgs ==
    \/ \E t \in {1} :
          /\ \/ CallSend(t, SendModes \cup {"raw", "Input"},
                           {MinLevel - 1, MinLevel, MinLevel + 1,
                            MaxLevel - 1, MaxLevel, MaxLevel + 1})
             \/ Sending(t)
             \/ CallIsKeyToggled(t, {"CapsLock", "NUMLOCK", "scrolllock",
                                     "Insert", "ins", "Shift"})
             \/ GetKeyState(t)
             \/ CallRegister(t, {HotkeyD, Binding("hotkey", "", DefaultCtx)})
             \/ CallHotkeyDecorator(t, {HotkeyD,
                                        Binding("hotkey", "", DefaultCtx)})
             \/ CallDecorator(t)
             \/ Manager(t)
          /\ UNCHANGED <<lastSwitch, menuVars, hsVars, hkVars>>
    \/ /\ HotstringUpdate
       /\ UNCHANGED <<keyVars, menuVars, hkVars>>

InitArgsSpec == InitKeys /\ InitMenu /\ InitHsModeCall /\ InitHk

SpecArgs == InitArgsSpec /\ [][NextArgs]_vars

\* the state after remap_key("a", "b") has returned
InitKeysRemapped ==
    /\ pc = [t \in Threads |-> "idle"]
    /\ op = [t \in Threads |-> NoOp]
    /\ issued = [t \in Threads |-> <<>>]
    /\ result = [t \in Threads |-> "none"]
    /\ lockOwner = 0
    /\ lockCount = 0
    /\ sendOwner = 0
    /\ sendCount = 0
    /\ hostLevel = 0
    /\ lastSwitch = [b \in Bindings |-> "none"]
    /\ remapped = {RemappedKey(WildcardOrigin, WildcardOriginUp)}

InitLive == InitKeysRemapped /\ InitMenu /\ InitHs /\ InitHk

\* threads concurrently registering a hotkey in a predicate context, calling
\* send with a level that is refused inside the lock, and running the
\* callbacks of the remapped key, which send at the default level
NextLive ==
    \E t \in Threads :
       /\ \/ CallRegister(t, {HotkeyP})
          \/ Manager(t)
          \/ CallSend(t, {"input"}, {MaxLevel + 1})
          \/ CallRemapCallback(t)
          \/ Sending(t)
       /\ UNCHANGED <<lastSwitch, menuVars, hsVars, hkVars>>

\* a thread that can run does run: the steps between taking and releasing a
\* lock are always enabled (the host returns or raises)
Progress(t) ==
    /\ \/ Enter(t)
       \/ Body(t)
       \/ Exit(t)
       \/ Unlock(t)
       \/ UnlockExc(t)
       \/ SendLevel(t)
       \/ SendKeys(t)
       \/ SendUnlock(t)
       \/ SendUnlockExc(t)
    /\ UNCHANGED <<lastSwitch, menuVars, hsVars, hkVars>>

\* a thread waiting for a lock that is released again and again gets it
TakeContextLock(t) ==
    AcquireLock(t) /\ UNCHANGED <<lastSwitch, menuVars, hsVars, hkVars>>

TakeSendLock(t) ==
    AcquireSendLock(t) /\ UNCHANGED <<lastSwitch, menuVars, hsVars, hkVars>>

FairScheduling ==
    \A t \in Threads :
       /\ WF_vars(Progress(t))
       /\ SF_vars(TakeContextLock(t))
       /\ SF_vars(TakeSendLock(t))

SpecLive == InitLive /\ [][NextLive]_vars /\ FairScheduling

\* one Menu.update call with each combination of arguments, every host call
\* of which returns or raises
InitMenuCall ==
    /\ mpc = "start"
    /\ margs \in MenuCalls
    /\ mcalls = <<>>

NextMenu ==
    /\ \/ MenuUpdate
       \/ MenuRename
       \/ MenuSetOptions
       \/ MenuSetThing
       \/ MenuSetEnabled
       \/ MenuSetChecked
       \/ MenuSetIcon
    /\ UNCHANGED <<keyVars, hsVars, hkVars>>

InitMenuSpec == InitKeys /\ InitMenuCall /\ InitHs /\ InitHk

SpecMenu == InitMenuSpec /\ [][NextMenu]_vars

\* one Hotstring.update call with each combination of fields and arguments
InitHsCall ==
    /\ hsPc = "call"
    /\ hsArgs \in HotstringCalls
    /\ hsOptions = <<>>
    /\ hsIssued = <<>>

NextHs ==
    /\ HotstringUpdate
    /\ UNCHANGED <<keyVars, menuVars, hkVars>>

InitHsSpec == InitKeys /\ InitMenu /\ InitHsCall /\ InitHk

SpecHs == InitHsSpec /\ [][NextHs]_vars

\* one hotkey() registration or one Hotkey.update call with each combination
\* of options
InitHkCall ==
    /\ hkPc = "call"
    /\ hkCall \in {"hotkey", "update"}
    /\ hkArgs \in HotkeyCalls
    /\ hkOptionStr = ""

NextHk ==
    /\ \/ HotkeyRegister
       \/ HotkeyUpdate
    /\ UNCHANGED <<keyVars, menuVars, hsVars>>

InitHkSpec == InitKeys /\ InitMenu /\ InitHs /\ InitHkCall

SpecHk == InitHkSpec /\ [][NextHk]_vars

(***************************************************************************)
(* Properties                                                              *)
(***************************************************************************)
IsPrefix(s, e) == Len(s) <= Len(e) /\ \A i \in 1..Len(s) : s[i] = e[i]

IsContextDir(d) == d.cmd \in {"HotkeyContext", "HotkeyExitContext"}

\* the directives of an operation other than context entry and exit
BodyDirs(s) == SelectSeq(s, LAMBDA d : ~IsContextDir(d))

\* t's operation is over: it returned or raised
Finished(t) == pc[t] = "idle" /\ result[t] \in {"returned", "raised"}

\* t appends a directive to the host-call trace in this step
Issues(t) == Len(issued'[t]) = Len(issued[t]) + 1

\* t has issued HotkeyContext and not yet the HotkeyExitContext that closes it
InContext(t) ==
    /\ pc[t] # "idle"
    /\ Len(SelectSeq(issued[t], LAMBDA d : d.cmd = "HotkeyContext"))
          > Len(SelectSeq(issued[t], LAMBDA d : d.cmd = "HotkeyExitContext"))

\* C1 (as claimed): in every finished operation, each HotkeyContext directive
\* that was followed by the directive of the guarded block is also followed
\* by a HotkeyExitContext directive, whether the block returned or raised.
C1_ExitIssuedAfterBlock ==
    \A t \in Threads :
       Finished(t) =>
          \A i \in 1..Len(issued[t]) :
             (issued[t][i].cmd = "HotkeyContext" /\ i < Len(issued[t]))
                => \E j \in (i+1)..Len(issued[t]) :
                      issued[t][j].cmd = "HotkeyExitContext"

\* C2: while a thread is between its HotkeyContext directive and its
\* HotkeyExitContext directive, no other thread issues any directive
\* (HotkeyContext, HotkeyExitContext, Hotkey, HotkeySpecial, Hotstring).
C2_ContextSectionExclusive ==
    [][\A t \in Threads :
          Issues(t) => \A u \in Threads \ {t} : ~InContext(u)]_vars

\* C2 witness: a thread is inside the guarded section of one predicate
\* context while another thread, bound for a different predicate context,
\* waits for the lock.
C2_Witness ==
    \E t, u \in Threads :
       /\ t # u
       /\ InContext(t) /\ pc[t] = "body"
       /\ pc[u] = "lock"
       /\ CurStep(u).b.ctx \in PredicateCtxs \ {CurStep(t).b.ctx}

\* t has issued SendLevel and not yet its SendInput/SendPlay/SendEvent
HalfSent(t) ==
    /\ pc[t] # "idle"
    /\ Len(issued[t]) = 1
    /\ issued[t][1].cmd = "SendLevel"

\* C3: no thread issues a SendLevel or Send* directive between another
\* thread's SendLevel and its Send* directive, and every Send* directive is
\* issued while the host's level is the level of the same send call.
C3_SendPairUninterrupted ==
    [][\A t \in Threads :
          Issues(t) =>
             /\ \A u \in Threads \ {t} : ~HalfSent(u)
             /\ pc[t] = "send_cmd" => hostLevel = op[t].level]_vars

\* C3 witness: a thread has issued SendLevel and is about to issue its Send*
\* directive while another thread waits to send at a different level.
C3_Witness ==
    \E t, u \in Threads :
       /\ t # u
       /\ HalfSent(t) /\ pc[t] = "send_cmd"
       /\ pc[u] = "send_lock"
       /\ op[u].level # op[t].level
       /\ op[u].level \in MinLevel..MaxLevel

\* the two HotkeySpecial directives the claim expects of a composite call
C6_Expected(m) ==
    << [cmd |-> "HotkeySpecial", a1 |-> "*a", a2 |-> m],
       [cmd |-> "HotkeySpecial", a1 |-> "*a Up", a2 |-> m] >>

\* C6: remap_key("a", "b") returns a composite of exactly the hotkeys "*a"
\* and "*a Up"; a composite enable/disable/toggle that returns has issued
\* exactly HotkeySpecial "*a" and then HotkeySpecial "*a Up" with the call's
\* action, and at no point has the call issued anything but a prefix of them.
C6_RemappedKeyCascades ==
    /\ \A r \in remapped :
          r = [wildcard_origin |->
                  [type |-> "hotkey", name |-> "*a", ctx |-> "default"],
               wildcard_origin_up |->
                  [type |-> "hotkey", name |-> "*a Up", ctx |-> "default"]]
    /\ \A t \in Threads :
          op[t].kind = "remapped" =>
             /\ IsPrefix(issued[t], C6_Expected(op[t].arg))
             /\ result[t] = "returned" => issued[t] = C6_Expected(op[t].arg)

\* C6 witness: a toggle() of the composite has returned.
C6_Witness ==
    \E t \in Threads :
       /\ op[t].kind = "remapped" /\ op[t].arg = "Toggle"
       /\ result[t] = "returned"
       /\ Len(issued[t]) = 2

\* the registering and the switching directive the claim expects for b
C7_Registering(b) ==
    IF b.type = "hotkey"
    THEN [cmd |-> "Hotkey", a1 |-> b.name, a2 |-> b.ctx]
    ELSE [cmd |-> "Hotstring", a1 |-> b.name, a2 |-> ""]

C7_Switching(b, act) ==
    IF b.type = "hotkey"
    THEN [cmd |-> "HotkeySpecial", a1 |-> b.name, a2 |-> act]
    ELSE [cmd |-> "Hotstring", a1 |-> b.name, a2 |-> act]

\* C7: a registration that returns has issued the registering directive and
\* then the On directive of the same binding and nothing else for it, so the
\* last switch the host accepted for the binding is On whatever it was
\* before; an enable/disable/toggle call that returns has issued exactly its
\* one On/Off/Toggle directive, which is then the binding's last switch.
C7_RegistrationEnables ==
    \A t \in Threads :
       result[t] = "returned" =>
          /\ op[t].kind = "register" =>
                /\ BodyDirs(issued[t]) =
                      << C7_Registering(op[t].steps[1].b),
                         C7_Switching(op[t].steps[1].b, "On") >>
                /\ lastSwitch[op[t].steps[1].b] = "On"
          /\ (op[t].kind = "method" /\ op[t].arg \in {"On", "Off", "Toggle"}) =>
                /\ BodyDirs(issued[t]) =
                      << C7_Switching(op[t].steps[1].b, op[t].arg) >>
                /\ lastSwitch[op[t].steps[1].b] = op[t].arg

\* C7 witness: the registration of a hotstring in a predicate context has
\* returned, after both of its directives.
C7_Witness ==
    \E t \in Threads :
       /\ op[t].kind = "register" /\ result[t] = "returned"
       /\ op[t].steps[1].b.type = "hotstring"
       /\ Len(BodyDirs(issued[t])) = 2

\* the position the claim gives each host call of an update
C4_Rank(c) ==
    CASE c.cmd = "Rename"                     -> 1
      [] c.cmd = "Add" /\ Len(c.args) = 2     -> 2
      [] c.cmd = "Add" /\ Len(c.args) = 1     -> 3
      [] c.cmd \in {"Enable", "Disable"}      -> 4
      [] c.cmd \in {"Check", "Uncheck"}       -> 5
      [] c.cmd = "Icon"                       -> 6

\* the claim's condition for the step of each rank to be issued
C4_ArgSet(a, r) ==
    CASE r = 1 -> a.new_name # "UNSET"
      [] r = 2 -> \/ a.priority # <<>> \/ a.radio # "None" \/ a.right # "None"
                  \/ a.new_column # "None" \/ a.bar_column # "None"
      [] r = 3 -> a.callback # "None" \/ a.submenu # "None"
      [] r = 4 -> a.enabled # "None"
      [] r = 5 -> a.checked # "None"
      [] r = 6 -> a.icon \notin {"None", ""}

\* C4: the host calls of an update are issued in the order rename, options,
\* thing, enabled, checked, icon, each at most once and only when its
\* argument is set (Enable for enabled true, Disable for false, Check and
\* Uncheck likewise), and an update that returns has issued the call of every
\* argument that is set (an icon being set when it is a non-empty name).
C4_UpdateOrder ==
    /\ \A i, j \in 1..Len(mcalls) :
          i < j => C4_Rank(mcalls[i]) < C4_Rank(mcalls[j])
    /\ \A i \in 1..Len(mcalls) :
          /\ C4_ArgSet(margs, C4_Rank(mcalls[i]))
          /\ mcalls[i].cmd = "Enable"  => margs.enabled = "True"
          /\ mcalls[i].cmd = "Disable" => margs.enabled = "False"
          /\ mcalls[i].cmd = "Check"   => margs.checked = "True"
          /\ mcalls[i].cmd = "Uncheck" => margs.checked = "False"
    /\ mpc = "done" =>
          \A r \in 1..6 :
             C4_ArgSet(margs, r) =>
                \E i \in 1..Len(mcalls) : C4_Rank(mcalls[i]) = r

\* C4 witness: an update with every argument set has returned after its six
\* host calls.
C4_Witness ==
    /\ mpc = "done"
    /\ Len(mcalls) = 6
    /\ margs.enabled = "False" /\ margs.checked = "True"

\* C5: only the last host call of an update can be one that raised, and an
\* update whose host call raised has ended by raising.
C5_NoCallAfterFailure ==
    /\ \A i \in 1..Len(mcalls) : ~mcalls[i].ok => i = Len(mcalls)
    /\ (mcalls # <<>> /\ ~mcalls[Len(mcalls)].ok) => mpc = "raised"

\* C5 witness: the rename of an update raised and the update ended there,
\* although its enabled, checked and icon arguments were set.
C5_Witness ==
    /\ mpc = "raised"
    /\ Len(mcalls) = 1 /\ mcalls[1].cmd = "Rename" /\ ~mcalls[1].ok
    /\ margs.enabled # "None" /\ margs.checked # "None"
    /\ margs.icon = "icon.ico"

\* the end-char tokens and the case tokens of the option list
EndCharPart(tokens) ==
    SelectSeq(tokens, LAMBDA k : k \in {"*", "*0", "O", "O0"})

CasePart(tokens) == SelectSeq(tokens, LAMBDA k : k \in {"C", "C0", "C1"})

\* C8: with wait_for_end_char given, the end-char tokens are "*" alone for
\* False whatever omit_end_char is, and for True "*0" followed by "O" when
\* omit_end_char is True, by "O0" when it is False, by nothing when unset.
C8_EndCharTable ==
    hsPc = "done" =>
       /\ hsArgs.wait_for_end_char = "False" =>
             EndCharPart(hsOptions) = <<"*">>
       /\ hsArgs.wait_for_end_char = "True" =>
             EndCharPart(hsOptions) =
                CASE hsArgs.omit_end_char = "True"  -> <<"*0", "O">>
                  [] hsArgs.omit_end_char = "False" -> <<"*0", "O0">>
                  [] hsArgs.omit_end_char = "None"  -> <<"*0">>

\* C8 witness: an update with wait_for_end_char=False and omit_end_char=True
\* has built its options.
C8_Witness ==
    /\ hsPc = "done"
    /\ hsArgs.wait_for_end_char = "False"
    /\ hsArgs.omit_end_char = "True"

\* C9 (as claimed): with wait_for_end_char unset and omit_end_char True the
\* end-char tokens are "O" alone.
C9_OmitAlone ==
    (/\ hsPc = "done"
     /\ hsArgs.wait_for_end_char = "None"
     /\ hsArgs.omit_end_char = "True")
       => EndCharPart(hsOptions) = <<"O">>

\* C9 (amended): with wait_for_end_char unset and omit_end_char True the
\* end-char tokens are "*0" followed by "O".
C9_OmitForcesWait ==
    (/\ hsPc = "done"
     /\ hsArgs.wait_for_end_char = "None"
     /\ hsArgs.omit_end_char = "True")
       => EndCharPart(hsOptions) = <<"*0", "O">>

\* C9 witness: an update with wait_for_end_char unset and omit_end_char=True
\* has built its options.
C9_Witness ==
    /\ hsPc = "done"
    /\ hsArgs.wait_for_end_char = "None"
    /\ hsArgs.omit_end_char = "True"
    /\ Len(hsOptions) > 0

\* C10: a case-sensitive hotstring emits exactly "C" whatever conform_to_case
\* is; a case-insensitive one emits no case token when conform_to_case is
\* unset, "C0" when it is True, "C1" when it is False; the case token, when
\* there is one, is the first token of the option list.
C10_CaseToken ==
    hsPc = "done" =>
       /\ CasePart(hsOptions) =
             CASE hsArgs.case_sensitive              -> <<"C">>
               [] ~hsArgs.case_sensitive
                  /\ hsArgs.conform_to_case = "None"  -> <<>>
               [] ~hsArgs.case_sensitive
                  /\ hsArgs.conform_to_case = "True"  -> <<"C0">>
               [] ~hsArgs.case_sensitive
                  /\ hsArgs.conform_to_case = "False" -> <<"C1">>
       /\ CasePart(hsOptions) # <<>> => hsOptions[1] = CasePart(hsOptions)[1]

\* C10 witness: the update of a case-sensitive hotstring called with
\* conform_to_case=True has built its options.
C10_Witness ==
    /\ hsPc = "done"
    /\ hsArgs.case_sensitive
    /\ hsArgs.conform_to_case = "True"

\* the tokens of the option list that are none of the other options' tokens:
\* the key-delay tokens
KeyDelayPart(tokens) ==
    SelectSeq(tokens,
              LAMBDA k : k \notin {"C", "C0", "C1", "?", "?0", "*", "*0", "O",
                                   "O0", "B", "B0", "P0", "T", "T0", "SI",
                                   "SP", "SE", "Z", "Z0"})

\* C11: a key_delay D > 0 emits the one token "K" followed by D*1000, a
\* key_delay D <= 0 emits "K" followed by D itself (-1 gives "K-1", 0 gives
\* "K0"), and an unset key_delay emits no key-delay token.
C11_KeyDelayToken ==
    hsPc = "done" =>
       /\ hsArgs.key_delay = <<>> => KeyDelayPart(hsOptions) = <<>>
       /\ hsArgs.key_delay = <<-1>> => KeyDelayPart(hsOptions) = <<"K-1">>
       /\ hsArgs.key_delay = <<0>> => KeyDelayPart(hsOptions) = <<"K0">>
       /\ hsArgs.key_delay = <<2>> => KeyDelayPart(hsOptions) = <<"K2000">>
       /\ \A d \in -1..(MaxDelay + 1) :
             hsArgs.key_delay = <<d>> =>
                KeyDelayPart(hsOptions) =
                   << "K" \o ToString(IF d > 0 THEN d * 1000 ELSE d) >>

\* C11 witness: an update with the key_delay -1 has built its options, one
\* key-delay token among them.
C11_Witness ==
    /\ hsPc = "done"
    /\ hsArgs.key_delay = <<-1>>
    /\ Len(KeyDelayPart(hsOptions)) = 1

\* the token the claim gives each option of Hotkey.update
C16_Buffer(v) ==
    CASE v = "True" -> "B" [] v = "False" -> "B0" [] v = "None" -> ""

C16_Number(letter, v) == IF v = <<>> THEN "" ELSE letter \o ToString(v[1])

\* the options Hotkey.update is called with
C16_Passed ==
    IF hkCall = "hotkey"
    THEN [buffer      |-> IF hkArgs.buffer = "None" THEN "False"
                          ELSE hkArgs.buffer,
          priority    |-> IF hkArgs.priority = <<>> THEN <<0>>
                          ELSE hkArgs.priority,
          max_threads |-> IF hkArgs.max_threads = <<>> THEN <<1>>
                          ELSE hkArgs.max_threads,
          input_level |-> IF hkArgs.input_level = <<>> THEN <<0>>
                          ELSE hkArgs.input_level]
    ELSE hkArgs

\* C16: the option string is the concatenation, in the order buffer,
\* priority, max_threads, input_level, of "B" or "B0", "P<n>", "T<n>" and
\* "I<n>" for the options that are set and of nothing for the unset ones; a
\* hotkey() registration with default options sends "B0P0T1I0" and an update
\* with every option unset sends the empty string.
C16_HotkeyOptionString ==
    hkPc = "done" =>
       /\ hkOptionStr =
             C16_Buffer(C16_Passed.buffer)
             \o C16_Number("P", C16_Passed.priority)
             \o C16_Number("T", C16_Passed.max_threads)
             \o C16_Number("I", C16_Passed.input_level)
       /\ (/\ hkArgs.buffer = "None" /\ hkArgs.priority = <<>>
           /\ hkArgs.max_threads = <<>> /\ hkArgs.input_level = <<>>)
             => hkOptionStr = IF hkCall = "hotkey" THEN "B0P0T1I0" ELSE ""

\* C16 witness: a hotkey() registration with default options has sent its
\* option string.
C16_Witness ==
    /\ hkPc = "done"
    /\ hkCall = "hotkey"
    /\ hkArgs.buffer = "None" /\ hkArgs.priority = <<>>
    /\ hkArgs.max_threads = <<>> /\ hkArgs.input_level = <<>>
    /\ hkOptionStr # ""

\* the update renames an item addressed by name to a different name
C17_RenamesByName ==
    /\ margs.item_name.kind = "name"
    /\ margs.new_name \notin {UNSET, None, margs.item_name.name}

\* C17 (as claimed): in an update that renames an item addressed by name,
\* every host call issued after the accepted Rename call names the item by
\* its new name, the only name under which it exists after the rename.
C17_LaterCallsUseNewName ==
    C17_RenamesByName =>
       \A i \in 1..Len(mcalls) : \A j \in (i + 1)..Len(mcalls) :
          (mcalls[i].cmd = "Rename" /\ mcalls[i].ok)
             => mcalls[j].item = margs.new_name

\* t is running an operation on a binding of the default context
C15_DefaultOp(t) == pc[t] # "idle" /\ CurStep(t).b.ctx = DefaultCtx

\* C15 (as claimed): an operation on a binding of the default context issues
\* no HotkeyContext or HotkeyExitContext directive and never holds the
\* context lock.
C15_DefaultBypassesLock ==
    \A t \in Threads :
       C15_DefaultOp(t) =>
          /\ BodyDirs(issued[t]) = issued[t]
          /\ lockOwner # t

\* C15 (amended): an operation on a binding of the default context issues no
\* HotkeyContext or HotkeyExitContext directive, but it takes the context
\* lock like any other: it holds the lock when it issues its directive, and
\* it stays waiting for the lock while another thread is inside a predicate
\* context's guarded section.
C15_DefaultTakesLock ==
    [][\A t \in Threads :
          C15_DefaultOp(t) =>
             /\ BodyDirs(issued'[t]) = issued'[t]
             /\ Issues(t) => lockOwner = t
             /\ (pc[t] = "lock" /\ \E u \in Threads \ {t} : InContext(u))
                   => pc'[t] = "lock"]_vars

\* C15 witness: an operation on the default context's hotkey waits for the
\* lock while another thread is inside the guarded section of a predicate
\* context.
C15_Witness ==
    \E t, u \in Threads :
       /\ t # u
       /\ C15_DefaultOp(t) /\ pc[t] = "lock"
       /\ InContext(u) /\ pc[u] = "body"

\* the send-mode token among the option tokens
C12_ModePart(tokens) == SelectSeq(tokens, LAMBDA k : k \in {"SI", "SP", "SE"})

\* C12: in Hotstring.update a mode equal, whatever its case, to "input",
\* "play" or "event" gives the token "SI", "SP" or "SE"; any other mode gives
\* no send-mode token and no error, and the Hotstring directive is issued with
\* the tokens of the other options; send with a mode that is not exactly one
\* of the three raises and issues no host call.
C12_ModeStrictness ==
    /\ hsPc \in {"done", "raised"} =>
          /\ C12_ModePart(hsOptions) =
                CASE hsArgs.mode \in {"input", "Input", "INPUT"} -> <<"SI">>
                  [] hsArgs.mode \in {"play", "Play", "PLAY"}    -> <<"SP">>
                  [] hsArgs.mode \in {"event", "Event", "EVENT"} -> <<"SE">>
                  [] OTHER                                       -> <<>>
          /\ SelectSeq(hsOptions, LAMBDA k : k \notin {"SI", "SP", "SE"})
                = HotstringOptions([hsArgs EXCEPT !.mode = None])
          /\ hsIssued = << [cmd |-> "Hotstring",
                            a1  |-> ":" \o Join(hsOptions, "") \o ":btw",
                            a2  |-> ""] >>
    /\ \A t \in Threads :
          (op[t].kind = "send" /\ op[t].arg \notin {"input", "play", "event"})
             => /\ pc[t] = "idle"
                /\ result[t] = "raised"
                /\ issued[t] = <<>>

\* C12 witness: a hotstring update with the mode "raw" has issued its
\* directive and a send with the mode "raw" has raised.
C12_Witness ==
    /\ hsPc = "done"
    /\ hsArgs.mode = "raw"
    /\ Len(hsIssued) = 1
    /\ op[1].kind = "send" /\ op[1].arg = "raw" /\ result[1] = "raised"

\* t runs or has run send with one of the three modes
C13_Send(t) == op[t].kind = "send" /\ op[t].arg \in {"input", "play", "event"}

\* C13: send with a level outside 0..100 raises and issues neither SendLevel
\* nor Send*; with a level inside 0..100, 0 and 100 included, it issues
\* SendLevel with that level and, after it, the Send* directive.
C13_LevelCheck ==
    \A t \in Threads :
       C13_Send(t) =>
          IF op[t].level \in 0..100
          THEN /\ IsPrefix(issued[t],
                           << [cmd |-> "SendLevel",
                               a1 |-> ToString(op[t].level), a2 |-> ""],
                              [cmd |-> SendCommand(op[t].arg),
                               a1 |-> "keys", a2 |-> ""] >>)
               /\ Finished(t) => Len(issued[t]) >= 1
               /\ (Finished(t) /\ result[t] = "returned")
                     => Len(issued[t]) = 2
          ELSE /\ issued[t] = <<>>
               /\ Finished(t) => result[t] = "raised"

\* C13 witness: a send at level 100, the accepted upper bound, has returned
\* after its two directives.
C13_Witness ==
    \E t \in Threads :
       /\ C13_Send(t) /\ Finished(t)
       /\ op[t].level = 100
       /\ result[t] = "returned"
       /\ Len(issued[t]) = 2

\* the operation of t fails its local validation
C14_Invalid(t) ==
    \/ /\ op[t].kind \in {"register", "decorator"}
       /\ op[t].steps[1].b.type = "hotkey"
       /\ op[t].steps[1].b.name = ""
    \/ /\ op[t].kind = "is_key_toggled"
       /\ op[t].arg \notin {"CapsLock", "NUMLOCK", "scrolllock", "Insert",
                            "ins"}
    \/ /\ op[t].kind = "send"
       /\ op[t].level \notin 0..100

\* C14: hotkey() with an empty key name, in direct and in decorator form,
\* is_key_toggled with a key other than CapsLock, NumLock, ScrollLock, Insert
\* or Ins (in any case), and send with a level outside 0..100 raise without
\* having issued any host call.
C14_ValidationBeforeHost ==
    \A t \in Threads :
       C14_Invalid(t) =>
          /\ issued[t] = <<>>
          /\ Finished(t) => result[t] = "raised"
          /\ op[t].kind # "send" => Finished(t)

\* C14 witness: is_key_toggled("Shift") has raised.
C14_Witness ==
    \E t \in Threads :
       /\ Finished(t)
       /\ op[t].kind = "is_key_toggled" /\ op[t].arg = "Shift"
       /\ result[t] = "raised"

====
